---- MODULE Spec2Model ----
(***************************************************************************)
(* Model of src/interactions.h: the BSDF scatter step of the path tracer.  *)
(*                                                                         *)
(* Floats are modelled as exact rationals <<numerator, denominator>>; the  *)
(* inputs a call may take are those on which every float operation of the  *)
(* call (sqrt, cos, sin) has an exact rational value, so the rational      *)
(* arithmetic computes what the code computes.  Vectors (glm::vec3) are    *)
(* triples of rationals.                                                   *)
(***************************************************************************)
EXTENDS Integers, Sequences, FiniteSets, TLC

VARIABLES
    materials,   \* the Material registry shared by all invocations
    scene,       \* the hits the intersection collaborator may report
    active,      \* the path segments the driver traces
    seg,         \* seg[r]: PathSegment of ray r (ray, color, remainingBounces)
    rng,         \* rng[r]: the private random engine of ray r
    pc,          \* pc[r]: position of ray r's invocation of scatterRay
    call,        \* call[r]: the arguments and pre-state of r's current/last call
    locals,      \* locals[r]: originDirection and p of scatterRay
    ran,         \* ran[r]: the per-material functions run by the current/last call
    ncalls,      \* ncalls[r]: completed scatterRay calls on seg[r]
    start,       \* start[r]: the segment and engine the driver started path r with
    log          \* log[r]: for each completed call, its branch, hit and new ray

vars == <<materials, scene, active, seg, rng, pc, call, locals, ran, ncalls, start, log>>

(***************************************************************************)
(* Bounds of the model.                                                    *)
(***************************************************************************)
\* largest initial remaining-bounce budget of a path
MaxBounces == 2
\* number of path segments (threads) of the concurrent specification
NumRays == 2

Rays == 1..NumRays

(***************************************************************************)
(* float arithmetic, as exact rationals                                    *)
(***************************************************************************)
\* Euclid's algorithm on naturals
gcd[a \in Nat, b \in Nat] == IF b = 0 THEN a ELSE gcd[b, a % b]

GCD(a, b) == gcd[a, b]

Abs(i) == IF i < 0 THEN -i ELSE i

\* a float is a pair <<numerator, denominator>>; the operations below are
\* functions, so each operand is a value before the operation starts
Rat == Int \X Nat

\* the rational n/d in lowest terms with a positive denominator
lowest[n \in Int, d \in Int] ==
    LET g == GCD(Abs(n), Abs(d))
        s == IF d < 0 THEN -1 ELSE 1
    IN  <<s * (n \div g), s * (d \div g)>>

R(n, d) == lowest[n, d]

Zero == <<0, 1>>
One == <<1, 1>>
Two == <<2, 1>>

add[a \in Rat, b \in Rat] ==
    LET g == GCD(a[2], b[2])
    IN  R(a[1] * (b[2] \div g) + b[1] * (a[2] \div g), (a[2] \div g) * b[2])

RAdd(a, b) == add[a, b]

neg[a \in Rat] == <<-a[1], a[2]>>

RNeg(a) == neg[a]

RSub(a, b) == RAdd(a, RNeg(b))

mul[a \in Rat, b \in Rat] ==
    LET g1 == GCD(Abs(a[1]), b[2])
        g2 == GCD(Abs(b[1]), a[2])
    IN  R((a[1] \div g1) * (b[1] \div g2), (a[2] \div g2) * (b[2] \div g1))

RMul(a, b) == mul[a, b]

\* b is never zero on the inputs of the model (indexOfRefraction > 0)
inverse[b \in Rat] == R(b[2], b[1])

RDiv(a, b) == RMul(a, inverse[b])

less[a \in Rat, b \in Rat] == a[1] * b[2] < b[1] * a[2]

RLt(a, b) == less[a, b]

lessEq[a \in Rat, b \in Rat] == a[1] * b[2] <= b[1] * a[2]

RLe(a, b) == lessEq[a, b]

\* powf(a, k) for a whole exponent k
pow[a \in Rat, k \in Nat] == IF k = 0 THEN One ELSE RMul(a, pow[a, k - 1])

powf(a, k) == pow[a, k]

\* the least r with r*r >= x (0 for x <= 0)
ISqrt(x) ==
    IF x <= 0 THEN 0
    ELSE CHOOSE r \in 1..x : r * r >= x /\ (r - 1) * (r - 1) < x

IsSquareInt(x) == x >= 0 /\ ISqrt(x) * ISqrt(x) = x

\* a has an exact rational square root
isSquare[a \in Rat] == IsSquareInt(a[1]) /\ IsSquareInt(a[2])

IsSquare(a) == isSquare[a]

\* sqrt on the rationals that have an exact root
root[a \in Rat] == <<ISqrt(a[1]), ISqrt(a[2])>>

sqrt(a) == root[a]

absolute[a \in Rat] == <<Abs(a[1]), a[2]>>

abs(a) == absolute[a]

(***************************************************************************)
(* glm::vec3                                                               *)
(***************************************************************************)
vec3(x, y, z) == <<x, y, z>>

\* like the floats, the vector operations take values
Vec == Rat \X Rat \X Rat

vadd[u \in Vec, v \in Vec] == <<RAdd(u[1], v[1]), RAdd(u[2], v[2]), RAdd(u[3], v[3])>>

VAdd(u, v) == vadd[u, v]

vsub[u \in Vec, v \in Vec] == <<RSub(u[1], v[1]), RSub(u[2], v[2]), RSub(u[3], v[3])>>

VSub(u, v) == vsub[u, v]

\* scalar * vector
vscale[s \in Rat, v \in Vec] == <<RMul(s, v[1]), RMul(s, v[2]), RMul(s, v[3])>>

VScale(s, v) == vscale[s, v]

\* component-wise product (operator* of two vec3)
vmul[u \in Vec, v \in Vec] == <<RMul(u[1], v[1]), RMul(u[2], v[2]), RMul(u[3], v[3])>>

VMul(u, v) == vmul[u, v]

vdot[u \in Vec, v \in Vec] ==
    RAdd(RAdd(RMul(u[1], v[1]), RMul(u[2], v[2])), RMul(u[3], v[3]))

dot(u, v) == vdot[u, v]

vcross[u \in Vec, v \in Vec] ==
    <<RSub(RMul(u[2], v[3]), RMul(v[2], u[3])),
      RSub(RMul(u[3], v[1]), RMul(v[3], u[1])),
      RSub(RMul(u[1], v[2]), RMul(v[1], u[2]))>>

cross(u, v) == vcross[u, v]

length(v) == sqrt(dot(v, v))

normalize(v) == VScale(RDiv(One, length(v)), v)

\* glm::reflect(I, N) = I - N * dot(N, I) * 2
ReflectHalf(I, N) == VSub(I, VScale(dot(N, I), N))
reflect(I, N) == VSub(I, VScale(RMul(dot(N, I), Two), N))

\* the k of glm::refract: 1 - eta*eta*(1 - dot(N,I)*dot(N,I))
RefractK(I, N, eta) ==
    RSub(One, RMul(RMul(eta, eta), RSub(One, RMul(dot(N, I), dot(N, I)))))

\* glm::refract(I, N, eta): the zero vector when k < 0
refract(I, N, eta) ==
    LET k == RefractK(I, N, eta)
    IN  IF RLt(k, Zero)
        THEN vec3(Zero, Zero, Zero)
        ELSE VSub(VScale(eta, I), VScale(RAdd(RMul(eta, dot(N, I)), sqrt(k)), N))

ClampNoUpper(x, lo, hi) == IF RLt(x, lo) THEN lo ELSE x
\* glm::clamp on one component: min(max(x, lo), hi)
clampf(x, lo, hi) == IF RLt(x, lo) THEN lo ELSE IF RLt(hi, x) THEN hi ELSE x

clamp(v, lo, hi) ==
    <<clampf(v[1], lo[1], hi[1]), clampf(v[2], lo[2], hi[2]), clampf(v[3], lo[3], hi[3])>>

(***************************************************************************)
(* Constants of the headers interactions.h includes (utilities.h).         *)
(* Angles are measured in quarter turns, so TWO_PI is 4.                   *)
(***************************************************************************)
EPSILON == <<1, 100000>>

TWO_PI == <<4, 1>>

\* abs(a) < SQRT_OF_ONE_THIRD, compared on the squares
LtSqrtOfOneThird(a) == RLt(RMul(a, a), <<1, 3>>)

\* cos and sin on whole quarter turns
cos(a) == CASE a = <<0, 1>> -> One
            [] a = <<1, 1>> -> Zero
            [] a = <<2, 1>> -> RNeg(One)
            [] a = <<3, 1>> -> Zero

sin(a) == CASE a = <<0, 1>> -> Zero
            [] a = <<1, 1>> -> One
            [] a = <<2, 1>> -> Zero
            [] a = <<3, 1>> -> RNeg(One)

(***************************************************************************)
(* thrust::default_random_engine with uniform_real_distribution u01(0,1):  *)
(* a deterministic stream of values in [0,1).  The engine state is the     *)
(* position s in the stream; n counts the draws taken from the engine.     *)
(***************************************************************************)
Stream ==
    << <<1, 2>>, <<9, 25>>, <<1, 4>>, <<16, 25>>, <<3, 4>>, <<0, 1>>, <<1, 2>>, <<0, 1>> >>

\* the value u01(rng) returns
U01Val(g) == Stream[g.s + 1]

\* the engine after one u01(rng)
NoDraw(g) == g
U01Next(g) == [s |-> (g.s + 1) % Len(Stream), n |-> g.n + 1]

(***************************************************************************)
(* calculateRandomDirectionInHemisphere                                    *)
(***************************************************************************)
DirectionNotNormal(normal) ==
    IF LtSqrtOfOneThird(abs(normal[1])) THEN vec3(One, Zero, Zero)
    ELSE IF LtSqrtOfOneThird(abs(normal[2])) THEN vec3(Zero, One, Zero)
    ELSE vec3(Zero, Zero, One)

\* returns the direction and the engine after the two draws
calculateRandomDirectionInHemisphere(normal, g) ==
    LET up == sqrt(U01Val(g))
        over == sqrt(RSub(One, RMul(up, up)))
        g1 == U01Next(g)
        around == RMul(U01Val(g1), TWO_PI)
        g2 == U01Next(g1)
        perpendicularDirection1 == normalize(cross(normal, DirectionNotNormal(normal)))
        perpendicularDirection2 == normalize(cross(normal, perpendicularDirection1))
    IN  [dir |-> VAdd(VAdd(VScale(up, normal),
                           VScale(RMul(cos(around), over), perpendicularDirection1)),
                      VScale(RMul(sin(around), over), perpendicularDirection2)),
         rng |-> g2]

(***************************************************************************)
(* The per-material scatter functions.  Each takes the path segment and    *)
(* the engine and returns both as the function leaves them.                *)
(***************************************************************************)
lambertianBSDF(ps, intersect, normal, m, g) ==
    LET s == calculateRandomDirectionInHemisphere(normal, g)
    IN  [ps |-> [ps EXCEPT !.ray = [origin |-> VAdd(intersect, VScale(EPSILON, normal)),
                                    direction |-> s.dir]],
         rng |-> s.rng]

\* the offset 0.001f of specularBSDF
SpecularOffset == <<1, 1000>>

specularBSDF(ps, intersect, normal, m, g) ==
    [ps |-> [ray |-> [origin |-> VAdd(intersect, VScale(SpecularOffset, normal)),
                      direction |-> reflect(ps.ray.direction, normal)],
             color |-> VMul(ps.color, m.specular.color),
             remainingBounces |-> ps.remainingBounces],
     rng |-> g]

SchlickAbsCos(c, reflectIndex) ==
    LET r0 == powf(RDiv(RSub(One, reflectIndex), RAdd(One, reflectIndex)), 2)
    IN  RAdd(r0, RMul(RSub(One, r0), powf(RSub(One, abs(c)), 5)))
schlick(c, reflectIndex) ==
    LET r0 == powf(RDiv(RSub(One, reflectIndex), RAdd(One, reflectIndex)), 2)
    IN  RAdd(r0, RMul(RSub(One, r0), powf(RSub(One, c), 5)))

\* bool isInside = glm::dot(origin_direction, normal) > 0.f
IsInside(incident, normal) == RLt(Zero, dot(incident, normal))

Eta(incident, normal, m) ==
    IF IsInside(incident, normal)
    THEN m.indexOfRefraction
    ELSE RDiv(One, m.indexOfRefraction)

OutwardNormal(incident, normal) ==
    IF IsInside(incident, normal)
    THEN normalize(VScale(RNeg(One), normal))
    ELSE normalize(normal)

\* glm::refract(glm::normalize(origin_direction), outwardNormal, eta)
Refracted(incident, normal, m) ==
    refract(normalize(incident), OutwardNormal(incident, normal),
            Eta(incident, normal, m))

\* glm::length(direction) < 0.01f
IsTotalInternalReflection(incident, normal, m) ==
    RLt(length(Refracted(incident, normal, m)), <<1, 100>>)

\* pathSegment.color *= 0.f
KeepColor(color) == color
TirColor(color) == VScale(Zero, color)

\* reflectProb < sampleFloat ? glm::reflect(origin_direction, normal) : direction
ChooseFlipped(prob, sample, reflected, other) ==
    IF RLt(sample, prob) THEN reflected ELSE other
ChooseDirection(prob, sample, reflected, other) ==
    IF RLt(prob, sample) THEN reflected ELSE other

\* pathSegment.ray.origin = intersect + EPSILON * pathSegment.ray.direction
OriginAlongNormal(intersect, normal, outgoing) == VAdd(intersect, VScale(EPSILON, normal))
SchlickOrigin(intersect, normal, outgoing) == VAdd(intersect, VScale(EPSILON, outgoing))

schlickBSDF(ps, intersect, normal, m, g) ==
    LET origin_direction == ps.ray.direction
        tir == IsTotalInternalReflection(origin_direction, normal, m)
        color1 == IF tir THEN TirColor(ps.color) ELSE ps.color
        direction == IF tir THEN reflect(origin_direction, normal)
                            ELSE Refracted(origin_direction, normal, m)
        reflectProb == schlick(dot(origin_direction, normal), m.indexOfRefraction)
        sampleFloat == U01Val(g)
        newDirection == ChooseDirection(reflectProb, sampleFloat,
                                        reflect(origin_direction, normal), direction)
    IN  [ps |-> [ray |-> [origin |-> SchlickOrigin(intersect, normal, newDirection),
                          direction |-> newDirection],
                 color |-> VMul(color1, m.specular.color),
                 remainingBounces |-> ps.remainingBounces],
         rng |-> U01Next(g)]

(***************************************************************************)
(* scatterRay                                                              *)
(***************************************************************************)
\* the flag tests of the dispatcher
BranchRefractiveFirst(m) ==
    IF m.hasRefractive = 1 THEN "schlickBSDF"
    ELSE IF m.hasReflective = 1 THEN "specularBSDF"
    ELSE "lambertianBSDF"
Branch(m) ==
    IF m.hasReflective = 1 THEN "specularBSDF"
    ELSE IF m.hasRefractive = 1 THEN "schlickBSDF"
    ELSE "lambertianBSDF"

\* float p = u01(rng)
EntryRng(g) == U01Next(g)

RunBranch(ps, intersect, normal, m, g) ==
    CASE Branch(m) = "specularBSDF" -> specularBSDF(ps, intersect, normal, m, g)
      [] Branch(m) = "schlickBSDF" -> schlickBSDF(ps, intersect, normal, m, g)
      [] OTHER -> lambertianBSDF(ps, intersect, normal, m, g)

\* pathSegment.remainingBounces--
NoDecrement(b) == b
Decrement(b) == b - 1

\* the three statements after the branches
PostScatter(ps, m) ==
    [ray |-> ps.ray,
     color |-> clamp(VMul(ps.color, m.color), vec3(Zero, Zero, Zero), vec3(One, One, One)),
     remainingBounces |-> Decrement(ps.remainingBounces)]

\* one whole call, run alone
scatterRay(ps, intersect, normal, m, g) ==
    LET b == RunBranch(ps, intersect, normal, m, EntryRng(g))
    IN  [ps |-> PostScatter(b.ps, m), rng |-> b.rng]

(***************************************************************************)
(* The materials and hits of the model.                                    *)
(***************************************************************************)
Material(color, specularColor, hasReflective, hasRefractive, indexOfRefraction) ==
    [color |-> color, specular |-> [color |-> specularColor],
     hasReflective |-> hasReflective, hasRefractive |-> hasRefractive,
     indexOfRefraction |-> indexOfRefraction]

White == vec3(One, One, One)
Tint == vec3(<<1, 2>>, <<2, 1>>, <<-1, 1>>)
Gloss == vec3(<<2, 1>>, <<1, 2>>, One)

\* 1,2 diffuse; 3 mirror; 4 both flags set; 5 glass (4/3); 6 rarer medium (3/4);
\* 7 refractive with index 1
MaterialTable ==
    << Material(White, White, 0, 0, One),
       Material(Tint, Gloss, 0, 0, One),
       Material(White, White, 1, 0, One),
       Material(vec3(<<1, 2>>, One, Zero), Gloss, 1, 1, <<4, 3>>),
       Material(White, White, 0, 1, <<4, 3>>),
       Material(vec3(One, One, <<1, 2>>), Gloss, 0, 1, <<3, 4>>),
       Material(White, White, 0, 1, One) >>

PX == vec3(One, Zero, Zero)
NX == vec3(RNeg(One), Zero, Zero)
PY == vec3(Zero, One, Zero)
NY == vec3(Zero, RNeg(One), Zero)
N345 == vec3(<<3, 5>>, <<4, 5>>, Zero)

P0 == vec3(Zero, Zero, Zero)
P1 == vec3(One, <<-2, 1>>, <<3, 1>>)

Hit(intersect, normal, m) == [intersect |-> intersect, normal |-> normal, m |-> m]

\* the hits of the sequential specification
Hits ==
    { Hit(P0, NX, 3), Hit(P1, PY, 3), Hit(P0, N345, 3),
      Hit(P1, PY, 4),
      Hit(P0, PY, 1), Hit(P1, N345, 2), Hit(P0, NX, 2),
      Hit(P1, PY, 5), Hit(P0, NY, 5), Hit(P0, NX, 5), Hit(P1, PX, 5),
      Hit(P1, PY, 6), Hit(P0, NY, 6),
      Hit(P1, PY, 7) }

\* the hits of the concurrent specification
HitsConc == { Hit(P0, NX, 3), Hit(P0, PY, 1), Hit(P1, PY, 5) }

D35 == vec3(<<3, 5>>, <<-4, 5>>, Zero)
D45 == vec3(<<4, 5>>, <<3, 5>>, Zero)

InitDirections == { PX, D35, D45 }

InitColors == { White, vec3(<<2, 1>>, <<1, 2>>, <<-1, 1>>) }

InitSeeds == {0, 4}

PathSegment(direction, color, remainingBounces) ==
    [ray |-> [origin |-> P0, direction |-> direction],
     color |-> color, remainingBounces |-> remainingBounces]

Engine(s) == [s |-> s, n |-> 0]

NoCall == [intersect |-> P0, normal |-> PX, m |-> 1,
           ps |-> PathSegment(PX, White, 0), rng |-> Engine(0)]

NoLocals == [originDirection |-> PX, p |-> Zero]

(***************************************************************************)
(* The calls the model takes: those whose float results are exact.         *)
(***************************************************************************)
\* every component is a multiple of 1/5
Small(v) == \A i \in 1..3 : 5 % v[i][2] = 0

AxisAligned(v) == \A i \in 1..3 : v[i][2] = 1

InScope(ps, h, g, m) ==
    LET d == ps.ray.direction
    IN  CASE Branch(m) = "specularBSDF" -> Small(d) \/ AxisAligned(h.normal)
          [] Branch(m) = "schlickBSDF" ->
                /\ Small(d)
                /\ AxisAligned(h.normal)
                /\ LET k == RefractK(d, OutwardNormal(d, h.normal), Eta(d, h.normal, m))
                   IN  RLt(k, Zero) \/ IsSquare(k)
          [] OTHER ->
                LET u1 == U01Val(EntryRng(g))
                    u2 == U01Val(U01Next(EntryRng(g)))
                IN  /\ IsSquare(u1)
                    /\ IsSquare(RSub(One, u1))
                    /\ RMul(u2, TWO_PI)[2] = 1

(***************************************************************************)
(* State machine                                                           *)
(***************************************************************************)
TypeOK ==
    /\ active \subseteq Rays
    /\ scene \subseteq Hits \cup HitsConc
    /\ pc \in [Rays -> {"idle", "entry", "dispatch", "post"}]
    /\ \A r \in Rays : seg[r].remainingBounces \in 0..(MaxBounces + 1)

InitCommon ==
    /\ materials = MaterialTable
    /\ pc = [r \in Rays |-> "idle"]
    /\ call = [r \in Rays |-> NoCall]
    /\ locals = [r \in Rays |-> NoLocals]
    /\ ran = [r \in Rays |-> <<>>]
    /\ ncalls = [r \in Rays |-> 0]
    /\ start = [r \in Rays |-> [ps |-> seg[r], rng |-> rng[r]]]
    /\ log = [r \in Rays |-> {}]

\* one path segment, any start
Init ==
    /\ active = {1}
    /\ scene = Hits
    /\ \E d \in InitDirections, c \in InitColors, b \in 1..MaxBounces :
          seg = [r \in Rays |-> IF r = 1 THEN PathSegment(d, c, b)
                                         ELSE PathSegment(PX, White, 0)]
    /\ \E s \in InitSeeds : rng = [r \in Rays |-> Engine(IF r = 1 THEN s ELSE 0)]
    /\ InitCommon

\* one thread per path segment, each about to scatter once
InitConc ==
    /\ active = Rays
    /\ scene = HitsConc
    /\ seg = [r \in Rays |-> PathSegment(IF r % 2 = 1 THEN D45 ELSE D35, White, 1)]
    /\ rng \in [Rays -> {Engine(s) : s \in InitSeeds}]
    /\ InitCommon

\* PathSegment& pathSegment: the call writes the caller's own segment
WriteAllSegs(segs, r, ps) == [q \in DOMAIN segs |-> ps]
WriteSeg(segs, r, ps) == [segs EXCEPT ![r] = ps]

\* the driver calls scatterRay for a path that has bounces left
Call(r, h) ==
    /\ r \in active
    /\ pc[r] = "idle"
    /\ seg[r].remainingBounces > 0
    /\ h \in scene
    /\ InScope(seg[r], h, rng[r], materials[h.m])
    /\ call' = [call EXCEPT ![r] = [intersect |-> h.intersect, normal |-> h.normal,
                                    m |-> h.m, ps |-> seg[r], rng |-> rng[r]]]
    /\ ran' = [ran EXCEPT ![r] = <<>>]
    /\ pc' = [pc EXCEPT ![r] = "entry"]
    /\ UNCHANGED <<materials, scene, active, seg, rng, locals, ncalls, start, log>>

\* originDirection = pathSegment.ray.direction; p = u01(rng)
Entry(r) ==
    /\ pc[r] = "entry"
    /\ locals' = [locals EXCEPT ![r] = [originDirection |-> seg[r].ray.direction,
                                        p |-> U01Val(rng[r])]]
    /\ rng' = [rng EXCEPT ![r] = EntryRng(rng[r])]
    /\ pc' = [pc EXCEPT ![r] = "dispatch"]
    /\ UNCHANGED <<materials, scene, active, seg, call, ran, ncalls, start, log>>

\* if (m.hasReflective == 1.f) specularBSDF(...)
Specular(r) ==
    LET c == call[r]
        res == specularBSDF(seg[r], c.intersect, c.normal, materials[c.m], rng[r])
    IN  /\ pc[r] = "dispatch"
        /\ Branch(materials[c.m]) = "specularBSDF"
        /\ seg' = WriteSeg(seg, r, res.ps)
        /\ rng' = [rng EXCEPT ![r] = res.rng]
        /\ ran' = [ran EXCEPT ![r] = Append(ran[r], "specularBSDF")]
        /\ pc' = [pc EXCEPT ![r] = "post"]
        /\ UNCHANGED <<materials, scene, active, call, locals, ncalls, start, log>>

\* else if (m.hasRefractive == 1.f) schlickBSDF(...)
Schlick(r) ==
    LET c == call[r]
        res == schlickBSDF(seg[r], c.intersect, c.normal, materials[c.m], rng[r])
    IN  /\ pc[r] = "dispatch"
        /\ Branch(materials[c.m]) = "schlickBSDF"
        /\ seg' = WriteSeg(seg, r, res.ps)
        /\ rng' = [rng EXCEPT ![r] = res.rng]
        /\ ran' = [ran EXCEPT ![r] = Append(ran[r], "schlickBSDF")]
        /\ pc' = [pc EXCEPT ![r] = "post"]
        /\ UNCHANGED <<materials, scene, active, call, locals, ncalls, start, log>>

\* else lambertianBSDF(...)
Lambertian(r) ==
    LET c == call[r]
        res == lambertianBSDF(seg[r], c.intersect, c.normal, materials[c.m], rng[r])
    IN  /\ pc[r] = "dispatch"
        /\ Branch(materials[c.m]) = "lambertianBSDF"
        /\ seg' = WriteSeg(seg, r, res.ps)
        /\ rng' = [rng EXCEPT ![r] = res.rng]
        /\ ran' = [ran EXCEPT ![r] = Append(ran[r], "lambertianBSDF")]
        /\ pc' = [pc EXCEPT ![r] = "post"]
        /\ UNCHANGED <<materials, scene, active, call, locals, ncalls, start, log>>

\* remainingBounces--; color *= m.color; color = clamp(color, 0, 1); return
Post(r) ==
    /\ pc[r] = "post"
    /\ seg' = WriteSeg(seg, r, PostScatter(seg[r], materials[call[r].m]))
    /\ ncalls' = [ncalls EXCEPT ![r] = ncalls[r] + 1]
    /\ pc' = [pc EXCEPT ![r] = "idle"]
    /\ log' = [log EXCEPT ![r] = log[r] \cup
                   {[f |-> ran[r][1], intersect |-> call[r].intersect,
                     normal |-> call[r].normal, ray |-> seg[r].ray]}]
    /\ UNCHANGED <<materials, scene, active, rng, call, locals, ran, start>>

Next ==
    \/ \E r \in Rays, h \in Hits \cup HitsConc : Call(r, h)
    \/ \E r \in Rays : Entry(r)
    \/ \E r \in Rays : Specular(r)
    \/ \E r \in Rays : Schlick(r)
    \/ \E r \in Rays : Lambertian(r)
    \/ \E r \in Rays : Post(r)

Spec == Init /\ [][Next]_vars

SpecConc == InitConc /\ [][Next]_vars

(***************************************************************************)
(* Vocabulary of the properties: the call of ray r that is running or has  *)
(* last returned, read from its recorded arguments call[r].                *)
(***************************************************************************)
Returned(r) == r \in active /\ pc[r] = "idle" /\ ncalls[r] > 0

Mat(r) == materials[call[r].m]

\* the incoming direction, normal and colour of the call
D0(r) == call[r].ps.ray.direction

N0(r) == call[r].normal

C0(r) == call[r].ps.color

Took(r, f) == ran[r] = <<f>>

\* d - 2 (d.n) n
Mirror(d, n) == VSub(d, VScale(RMul(Two, dot(d, n)), n))

\* Snell refraction with the normal flipped and eta = ior when inside, 1/ior otherwise
Snell(d, n, ior) ==
    IF RLt(Zero, dot(d, n))
    THEN refract(d, VScale(RNeg(One), n), ior)
    ELSE refract(d, n, RDiv(One, ior))

\* the dielectric branch ran and found the refracted direction degenerate
Tir(r) ==
    /\ Took(r, "schlickBSDF")
    /\ RLt(length(Snell(D0(r), N0(r), Mat(r).indexOfRefraction)), <<1, 100>>)

\* R and s of the dielectric branch: the Schlick value and the sample drawn there
SchlickR(r) == schlick(dot(D0(r), N0(r)), Mat(r).indexOfRefraction)

SampleS(r) == Stream[((call[r].rng.s + 1) % Len(Stream)) + 1]

Clamp01(x) == IF RLt(x, Zero) THEN Zero ELSE IF RLt(One, x) THEN One ELSE x

Clamp01V(v) == <<Clamp01(v[1]), Clamp01(v[2]), Clamp01(v[3])>>

Draws(r) == rng[r].n - call[r].rng.n

C2_BounceCounter ==
    \A r \in Rays :
        /\ seg[r].remainingBounces = start[r].ps.remainingBounces - ncalls[r]
        /\ seg[r].remainingBounces >= 0
        /\ ncalls[r] <= start[r].ps.remainingBounces
        /\ Returned(r) => seg[r].remainingBounces = call[r].ps.remainingBounces - 1

C2_Witness ==
    \E r \in Rays :
        /\ Returned(r)
        /\ Tir(r)
        /\ ncalls[r] = 2
        /\ seg[r].remainingBounces = 0

(***************************************************************************)
(* C3: the colour a call leaves is clamp01(c_in * S * m.color), S being    *)
(* (1,1,1) in the diffuse branch and m.specular.color in the reflective    *)
(* branch and the dielectric branch with valid refraction; the clamp is    *)
(* the dispatcher's last step only (the colour the per-material function   *)
(* leaves is the unclamped c_in * S), and every component of the result    *)
(* lies in [0,1].                                                          *)
(***************************************************************************)
SFactor(r) == IF Took(r, "lambertianBSDF") THEN vec3(One, One, One) ELSE Mat(r).specular.color

C3_Color ==
    \A r \in Rays :
        /\ (pc[r] = "post" /\ ~Tir(r)) => seg[r].color = VMul(C0(r), SFactor(r))
        /\ (Returned(r) /\ ~Tir(r)) =>
              seg[r].color = Clamp01V(VMul(VMul(C0(r), SFactor(r)), Mat(r).color))
        /\ Returned(r) =>
              \A i \in 1..3 : RLe(Zero, seg[r].color[i]) /\ RLe(seg[r].color[i], One)

C3_Witness ==
    \E r \in Rays :
        /\ Returned(r)
        /\ ~Tir(r)
        /\ \E i \in 1..3 : RLt(One, VMul(VMul(C0(r), SFactor(r)), Mat(r).color)[i])
        /\ \E i \in 1..3 : RLt(VMul(VMul(C0(r), SFactor(r)), Mat(r).color)[i], Zero)

(***************************************************************************)
(* C4: on total internal reflection the dielectric branch zeroes the path  *)
(* colour and leaves the mirror reflection of the original direction about *)
(* the original normal, whatever sample is drawn; the colour is still zero *)
(* after the dispatcher's multiply and clamp.                              *)
(***************************************************************************)
C4_TotalInternalReflection ==
    \A r \in Rays :
        (Tir(r) /\ (pc[r] = "post" \/ Returned(r))) =>
            /\ seg[r].color = vec3(Zero, Zero, Zero)
            /\ seg[r].ray.direction = Mirror(D0(r), N0(r))

C4_Witness ==
    \E r \in Rays :
        /\ Returned(r)
        /\ Tir(r)
        /\ C0(r) # vec3(Zero, Zero, Zero)
        /\ ~RLt(SchlickR(r), SampleS(r))
        /\ seg[r].ray.direction = Mirror(D0(r), N0(r))

(***************************************************************************)
(* C5 as stated: draws per call are 1 (reflective), 3 (diffuse), 2         *)
(* (dielectric without total internal reflection) and 1 (dielectric with   *)
(* total internal reflection).                                             *)
(***************************************************************************)
C5_Original ==
    \A r \in Rays :
        Returned(r) =>
            Draws(r) = CASE Took(r, "specularBSDF") -> 1
                         [] Took(r, "lambertianBSDF") -> 3
                         [] Took(r, "schlickBSDF") -> IF Tir(r) THEN 1 ELSE 2

(***************************************************************************)
(* C5 amended: the dispatcher draws one sample first; the reflective       *)
(* branch draws nothing more (1), the diffuse branch two more (3), and the *)
(* dielectric branch always one more (2), total internal reflection or not.*)
(***************************************************************************)
C5_Draws ==
    \A r \in Rays :
        /\ pc[r] = "dispatch" => Draws(r) = 1
        /\ (pc[r] = "post" \/ Returned(r)) =>
              Draws(r) = CASE Took(r, "specularBSDF") -> 1
                           [] Took(r, "lambertianBSDF") -> 3
                           [] Took(r, "schlickBSDF") -> 2

C5_Witness == \E r \in Rays : Returned(r) /\ Tir(r) /\ Draws(r) = 2

(***************************************************************************)
(* C6 as stated: without total internal reflection the outgoing direction  *)
(* is the mirror reflection if and only if R < s, and is the Snell         *)
(* refracted direction if and only if R >= s.                              *)
(***************************************************************************)
C6_Original ==
    \A r \in Rays :
        (Returned(r) /\ Took(r, "schlickBSDF") /\ ~Tir(r)) =>
            /\ seg[r].ray.direction = Mirror(D0(r), N0(r)) <=> RLt(SchlickR(r), SampleS(r))
            /\ seg[r].ray.direction = Snell(D0(r), N0(r), Mat(r).indexOfRefraction)
                  <=> ~RLt(SchlickR(r), SampleS(r))

(***************************************************************************)
(* C6 amended: without total internal reflection the outgoing direction is *)
(* the mirror reflection when R < s and the Snell refracted direction when *)
(* R >= s; the converses hold whenever the two directions differ.          *)
(***************************************************************************)
C6_Choice ==
    \A r \in Rays :
        (Returned(r) /\ Took(r, "schlickBSDF") /\ ~Tir(r)) =>
            LET refl == Mirror(D0(r), N0(r))
                refr == Snell(D0(r), N0(r), Mat(r).indexOfRefraction)
                out == seg[r].ray.direction
            IN  /\ RLt(SchlickR(r), SampleS(r)) => out = refl
                /\ ~RLt(SchlickR(r), SampleS(r)) => out = refr
                /\ refl # refr =>
                      /\ out = refl <=> RLt(SchlickR(r), SampleS(r))
                      /\ out = refr <=> ~RLt(SchlickR(r), SampleS(r))

C6_Witness ==
    \E r \in Rays :
        /\ Returned(r) /\ Took(r, "schlickBSDF") /\ ~Tir(r)
        /\ RLt(SchlickR(r), SampleS(r))
        /\ Mirror(D0(r), N0(r)) # Snell(D0(r), N0(r), Mat(r).indexOfRefraction)
        /\ seg[r].ray.direction = Mirror(D0(r), N0(r))

(***************************************************************************)
(* C7: the reflective branch leaves direction d - 2(d.n)n: its dot with n  *)
(* is the negated dot of d with n and its squared length that of d; with d *)
(* = (1,0,0), n = (-1,0,0), specular and base colour (1,1,1) and colour    *)
(* (1,1,1) the call leaves direction (-1,0,0) and colour (1,1,1).          *)
(***************************************************************************)
C7_Mirror ==
    \A r \in Rays :
        (Took(r, "specularBSDF") /\ (pc[r] = "post" \/ Returned(r))) =>
            LET out == seg[r].ray.direction
            IN  /\ out = Mirror(D0(r), N0(r))
                /\ dot(out, N0(r)) = RNeg(dot(D0(r), N0(r)))
                /\ dot(out, out) = dot(D0(r), D0(r))
                /\ ( /\ Returned(r)
                     /\ D0(r) = PX /\ N0(r) = NX /\ C0(r) = White
                     /\ Mat(r).specular.color = White /\ Mat(r).color = White )
                   => (out = NX /\ seg[r].color = White)

C7_Witness ==
    \E r \in Rays :
        /\ Returned(r) /\ Took(r, "specularBSDF")
        /\ D0(r) = PX /\ N0(r) = NX /\ C0(r) = White
        /\ Mat(r).specular.color = White /\ Mat(r).color = White
        /\ seg[r].ray.direction = NX

(***************************************************************************)
(* C8 as stated: one fixed positive eps serves every branch: the new       *)
(* origin is intersect + eps*normal in the diffuse and reflective branches *)
(* and intersect + eps*(outgoing direction) in the dielectric branch.      *)
(***************************************************************************)
OffsetVector(e) == IF e.f = "schlickBSDF" THEN e.ray.direction ELSE e.normal

\* the eps with origin = intersect + eps * v, if there is one
EpsOf(e) ==
    RDiv(dot(VSub(e.ray.origin, e.intersect), OffsetVector(e)),
         dot(OffsetVector(e), OffsetVector(e)))

C9_Independent ==
    /\ materials = MaterialTable
    /\ \A r \in Rays :
          LET c == call[r]
              m == MaterialTable[c.m]
              now == [ps |-> seg[r], rng |-> rng[r]]
          IN  /\ (pc[r] = "idle" /\ ncalls[r] = 0) => now = start[r]
              /\ pc[r] = "entry" => now = [ps |-> c.ps, rng |-> c.rng]
              /\ pc[r] = "dispatch" => now = [ps |-> c.ps, rng |-> EntryRng(c.rng)]
              /\ pc[r] = "post" =>
                    now = RunBranch(c.ps, c.intersect, c.normal, m, EntryRng(c.rng))
              /\ (pc[r] = "idle" /\ ncalls[r] > 0) =>
                    now = scatterRay(c.ps, c.intersect, c.normal, m, c.rng)

C9_Witness ==
    \E r1 \in Rays, r2 \in Rays :
        /\ r1 # r2
        /\ pc[r1] = "post" /\ pc[r2] = "post"
        /\ call[r1].m = call[r2].m
        /\ seg[r1] # seg[r2]

(***************************************************************************)
(* C10: for a hit from outside (dot(incoming direction, normal) <= 0) on a *)
(* refractive material the Schlick value is >= 1, never below the sample,  *)
(* so the outgoing direction is the refracted direction (or the total      *)
(* internal reflection fallback) whatever the sample; Fresnel reflection   *)
(* is only ever chosen for hits from inside.                               *)
(***************************************************************************)
C10_OutsideNeverReflects ==
    \A r \in Rays :
        (Returned(r) /\ Took(r, "schlickBSDF")) =>
            LET refl == Mirror(D0(r), N0(r))
                refr == Snell(D0(r), N0(r), Mat(r).indexOfRefraction)
                out == seg[r].ray.direction
            IN  /\ RLe(dot(D0(r), N0(r)), Zero) =>
                      /\ RLe(One, SchlickR(r))
                      /\ ~RLt(SchlickR(r), SampleS(r))
                      /\ out = IF Tir(r) THEN refl ELSE refr
                /\ (~Tir(r) /\ out = refl /\ refl # refr) => RLt(Zero, dot(D0(r), N0(r)))

C10_Witness ==
    \E r \in Rays :
        /\ Returned(r) /\ Took(r, "schlickBSDF") /\ ~Tir(r)
        /\ RLt(dot(D0(r), N0(r)), Zero)
        /\ RLt(Zero, SampleS(r))
        /\ Mirror(D0(r), N0(r)) # Snell(D0(r), N0(r), Mat(r).indexOfRefraction)
        /\ seg[r].ray.direction = Snell(D0(r), N0(r), Mat(r).indexOfRefraction)

====
